---- MODULE Spec2Model ----
(***************************************************************************)
(* Model of the schedule selection engine of ucr_course_scheduler:         *)
(* scheduler.build_schedule and its helpers (_parse_minutes, _days_str,    *)
(* _overlap, _prereq_met).                                                 *)
(*                                                                         *)
(* Python values are modelled as follows.                                  *)
(*   str            a sequence of one-character strings                    *)
(*   a dict value   a record [kind, s, n]: kind "absent" (key missing),    *)
(*                  "none" (None/null), "str" (text in s) or "num" (a      *)
(*                  number, n in tenths so that 4.5 is n = 45)             *)
(*   int | None     an integer, NoneMin standing for None                  *)
(*   an exception   pc = "raised" and exc names the exception type         *)
(*   sec["raw"]     the position of the record in the input list (a        *)
(*                  reference to the caller's dict, not a copy)            *)
(***************************************************************************)
EXTENDS Integers, Sequences, FiniteSets, TLC

VARIABLES
    sections,     \* argument: list of raw section dicts
    wish_scores,  \* argument: dict course code -> score
    completed,    \* argument: set of completed course codes
    max_load,     \* argument
    min_units,    \* argument
    max_units,    \* argument
    pc,           \* "filter" | "dfs" | "done" | "raised"
    k,            \* position of the for-loop over sections (1-based)
    clean,        \* list of normalised candidates
    best_sched,   \* nonlocal of dfs
    best_score,   \* nonlocal of dfs
    chosen,       \* the one list object every dfs frame shares
    stack,        \* call stack of dfs: frames [idx, i, units, score, at]
    exc,          \* "none" or the type of the exception that ended the call
    result,       \* the returned list (of references into sections)
    calls,        \* the caller's record of the calls that have returned
    args,         \* arguments of a helper called on its own
    out,          \* what that helper returned ("pending" before the call)
    other         \* <<>>, or the frame of a second invocation that is not running

vars == <<sections, wish_scores, completed, max_load, min_units, max_units,
          pc, k, clean, best_sched, best_score, chosen, stack, exc, result,
          calls, args, out, other>>

\* what a step of build_schedule cannot touch: the caller's record and the
\* helpers called on their own
outside == <<calls, args, out, other>>

inputs == <<sections, wish_scores, completed, max_load, min_units, max_units>>

-----------------------------------------------------------------------------
(* Bounds of the model *)

MaxSections == 3
MaxLoad == 3
MaxTimeLen == 5
MaxGroups == 2
MaxGroupLen == 2

-----------------------------------------------------------------------------
(* Text *)

LowerLetters == <<"a","b","c","d","e","f","g","h","i","j","k","l","m",
                  "n","o","p","q","r","s","t","u","v","w","x","y","z">>
UpperLetters == <<"A","B","C","D","E","F","G","H","I","J","K","L","M",
                  "N","O","P","Q","R","S","T","U","V","W","X","Y","Z">>
Digits == <<"0","1","2","3","4","5","6","7","8","9">>

IsUpperCh(c) == \E j \in 1..26 : UpperLetters[j] = c
IsLowerCh(c) == \E j \in 1..26 : LowerLetters[j] = c
IsDigitCh(c) == \E j \in 1..10 : Digits[j] = c
IsSpaceCh(c) == c \in {" ", "\t", "\n"}

LowerCh(c) == IF IsUpperCh(c)
              THEN LowerLetters[CHOOSE j \in 1..26 : UpperLetters[j] = c]
              ELSE c
UpperCh(c) == IF IsLowerCh(c)
              THEN UpperLetters[CHOOSE j \in 1..26 : LowerLetters[j] = c]
              ELSE c
DigitVal(c) == (CHOOSE j \in 1..10 : Digits[j] = c) - 1

\* str.lower(), str.upper()
Lower(s) == [j \in 1..Len(s) |-> LowerCh(s[j])]
Upper(s) == [j \in 1..Len(s) |-> UpperCh(s[j])]

\* str.strip()
RECURSIVE LStrip(_)
LStrip(s) == IF s # <<>> /\ IsSpaceCh(Head(s)) THEN LStrip(Tail(s)) ELSE s
RECURSIVE RStrip(_)
RStrip(s) == IF s # <<>> /\ IsSpaceCh(s[Len(s)])
             THEN RStrip(SubSeq(s, 1, Len(s) - 1)) ELSE s
Strip(s) == RStrip(LStrip(s))

\* str.isdigit()
IsDigitStr(s) == s # <<>> /\ \A j \in 1..Len(s) : IsDigitCh(s[j])

\* int() of a string of decimal digits
RECURSIVE DigitsToInt(_)
DigitsToInt(s) == IF s = <<>> THEN 0
                  ELSE 10 * DigitsToInt(SubSeq(s, 1, Len(s) - 1)) + DigitVal(s[Len(s)])

-----------------------------------------------------------------------------
(* Values of a raw dict *)

Absent   == [kind |-> "absent", s |-> <<>>, n |-> 0]
PyNone   == [kind |-> "none",   s |-> <<>>, n |-> 0]
Str(s)   == [kind |-> "str",    s |-> s,    n |-> 0]
Num(t)   == [kind |-> "num",    s |-> <<>>, n |-> t]

\* the parsed time of a section without a usable time: Python's None
NoneMin == -1

\* raw.get("creditHours", 4)
DefaultUnits == 4

\* dfs starts from best_score = -1
InitialBestScore == -1

-----------------------------------------------------------------------------
(* Helpers of scheduler.py *)

\* _parse_minutes: int(t[:2]) * 60 + int(t[2:]) if t and t.isdigit() and len(t) >= 4
_parse_minutes(t) ==
    IF t.kind = "str" /\ t.s # <<>> /\ IsDigitStr(t.s) /\ Len(t.s) >= 4
    THEN DigitsToInt(SubSeq(t.s, 1, 2)) * 60 + DigitsToInt(SubSeq(t.s, 3, Len(t.s)))
    ELSE NoneMin

\* _days_str: the letters of the day flags that are set, in the order MTWRF
_days_str(sec) ==
    LET flags == << <<"M", sec.meeting_meetingMonday>>,
                    <<"T", sec.meeting_meetingTuesday>>,
                    <<"W", sec.meeting_meetingWednesday>>,
                    <<"R", sec.meeting_meetingThursday>>,
                    <<"F", sec.meeting_meetingFriday>> >>
        set == SelectSeq(flags, LAMBDA f : f[2])
    IN  [j \in 1..Len(set) |-> set[j][1]]

Range(s) == {s[j] : j \in 1..Len(s)}

\* Python's a < b on int | None: "E" is the TypeError of comparing with None
PyLess(a, b) == IF a = NoneMin \/ b = NoneMin THEN "E"
                ELSE IF a < b THEN "T" ELSE "F"

\* a faulty _overlap: the second comparison confuses b's end with b's start
_overlap_startsOnly(a, b) ==
    IF a.days = <<>> \/ b.days = <<>> THEN "F"
    ELSE IF Range(a.days) \cap Range(b.days) = {} THEN "F"
    ELSE LET first == PyLess(a.start, b.start)
         IN  IF first # "T" THEN first
             ELSE PyLess(b.start, a.end)

\* a faulty _overlap: closed intervals, <= for <
PyLessEq(a, b) == IF a = NoneMin \/ b = NoneMin THEN "E"
                  ELSE IF a <= b THEN "T" ELSE "F"
_overlap_closedIntervals(a, b) ==
    IF a.days = <<>> \/ b.days = <<>> THEN "F"
    ELSE IF Range(a.days) \cap Range(b.days) = {} THEN "F"
    ELSE LET first == PyLessEq(a.start, b.end)
         IN  IF first # "T" THEN first
             ELSE PyLessEq(b.start, a.end)

\* _overlap: "T", "F", or "E" when the comparison raises TypeError
_overlap(a, b) ==
    IF a.days = <<>> \/ b.days = <<>> THEN "F"
    ELSE IF Range(a.days) \cap Range(b.days) = {} THEN "F"
    ELSE LET first == PyLess(a.start, b.end)
         IN  IF first # "T" THEN first      \* `and` stops at a false left operand
             ELSE PyLess(b.start, a.end)

NaN == <<"n","a","n">>

\* a faulty _prereq_met: the membership test in completed is forgotten
_prereq_met_anyListed(prereq_matrix, done) ==
    IF prereq_matrix = <<>> THEN TRUE
    ELSE \A g \in 1..Len(prereq_matrix) :
            \E j \in 1..Len(prereq_matrix[g]) : prereq_matrix[g][j] # NaN

\* a faulty _prereq_met: the placeholder 'nan' is not filtered out
_prereq_met_nanCounts(prereq_matrix, done) ==
    IF prereq_matrix = <<>> THEN TRUE
    ELSE \A g \in 1..Len(prereq_matrix) :
            \E j \in 1..Len(prereq_matrix[g]) : prereq_matrix[g][j] \in done

\* _prereq_met
_prereq_met(prereq_matrix, done) ==
    IF prereq_matrix = <<>> THEN TRUE
    ELSE \A g \in 1..Len(prereq_matrix) :
            \E j \in 1..Len(prereq_matrix[g]) :
                /\ prereq_matrix[g][j] # NaN
                /\ prereq_matrix[g][j] \in done

\* int(raw.get("creditHours", 4)): [err, v]
IntOfCredit(c) ==
    CASE c.kind = "absent" -> [err |-> "none", v |-> DefaultUnits]
      [] c.kind = "none"   -> [err |-> "TypeError", v |-> 0]
      [] c.kind = "num"    -> [err |-> "none", v |-> c.n \div 10]
      [] c.kind = "str"    ->
            IF IsDigitStr(Strip(c.s))
            THEN [err |-> "none", v |-> DigitsToInt(Strip(c.s))]
            ELSE [err |-> "ValueError", v |-> 0]

\* a faulty filter: the meeting type is not looked at
IsLecture_anyType(raw) == TRUE

\* (raw.get("meeting_meetingTypeDescription") or "").lower() != "lecture"
LectureWord == <<"l","e","c","t","u","r","e">>
IsLecture(raw) ==
    LET t == raw.meeting_meetingTypeDescription
    IN  Lower(IF t.kind = "str" THEN t.s ELSE <<>>) = LectureWord

\* raw["subjectCourse"].strip().upper()
NormCode(raw) == Upper(Strip(raw.subjectCourse))

\* a faulty filter: the completed set is not consulted
Unwanted_ignoresCompleted(code) == code \notin DOMAIN wish_scores

\* code not in wish_scores or code in completed
Unwanted(code) == code \notin DOMAIN wish_scores \/ code \in completed

\* the dict built for a retained section (lines 96-105); r is its position
Normalise(r) ==
    LET raw == sections[r] IN
    [ raw    |-> r,
      code   |-> NormCode(raw),
      score  |-> wish_scores[NormCode(raw)],
      units  |-> IntOfCredit(raw.creditHours).v,
      days   |-> _days_str(raw),
      start  |-> _parse_minutes(raw.meeting_meetingBeginTime),
      end    |-> _parse_minutes(raw.meeting_meetingEndTime),
      prereq |-> raw.prerequisites ]

\* a faulty build_schedule: the sort of line 108 is forgotten
SortDesc_unsorted(s) == s

\* clean.sort(key=score, reverse=True): stable, descending
RECURSIVE InsertDesc(_, _)
InsertDesc(sorted, x) ==
    IF sorted = <<>> THEN <<x>>
    ELSE IF Head(sorted).score >= x.score
         THEN <<Head(sorted)>> \o InsertDesc(Tail(sorted), x)
         ELSE <<x>> \o sorted
RECURSIVE SortDesc(_)
SortDesc(s) == IF s = <<>> THEN <<>>
               ELSE InsertDesc(SortDesc(SubSeq(s, 1, Len(s) - 1)), s[Len(s)])

\* a faulty duplicate test: compares the raw subjectCourse, not the code
AlreadyChosen_rawCode(sel, cand) ==
    \E j \in 1..Len(sel) :
        sections[sel[j].raw].subjectCourse = sections[cand.raw].subjectCourse

\* any(s["code"] == cand["code"] for s in chosen)
AlreadyChosen(sel, cand) == \E j \in 1..Len(sel) : sel[j].code = cand.code

\* any(_overlap(cand, s) for s in chosen): stops at the first clash or exception
RECURSIVE AnyOverlap(_, _)
AnyOverlap(cand, sel) ==
    IF sel = <<>> THEN "F"
    ELSE IF _overlap(cand, Head(sel)) # "F" THEN _overlap(cand, Head(sel))
         ELSE AnyOverlap(cand, Tail(sel))

\* a faulty line 115: the lower unit bound is forgotten
Recordable_noMinUnits(sel, units) ==
    /\ Len(sel) <= max_load
    /\ units <= max_units

\* line 115: len(chosen) <= max_load and min_units <= units <= max_units
Recordable(sel, units) ==
    /\ Len(sel) <= max_load
    /\ min_units <= units
    /\ units <= max_units

\* line 118: idx == len(clean) or len(chosen) == max_load
StopBranching(idx, sel) == idx = Len(clean) \/ Len(sel) = max_load

-----------------------------------------------------------------------------
(* Inputs: course codes, a catalogue of raw section dicts, configurations *)

CS141  == <<"C","S","1","4","1">>
CS150  == <<"C","S","1","5","0">>
CS161  == <<"C","S","1","6","1">>
CS010C == <<"C","S","0","1","0","C">>
CS011  == <<"C","S","0","1","1">>

T0900 == Str(<<"0","9","0","0">>)
T1000 == Str(<<"1","0","0","0">>)
T1030 == Str(<<"1","0","3","0">>)
T1100 == Str(<<"1","1","0","0">>)
T1130 == Str(<<"1","1","3","0">>)

Lecture    == Str(<<"L","e","c","t","u","r","e">>)
LECTURE    == Str(<<"L","E","C","T","U","R","E">>)
Laboratory == Str(<<"L","a","b","o","r","a","t","o","r","y">>)

\* a raw section dict as clean_data.generate_course_json writes it
Section(code, credit, type, days, begin, end, prereq) ==
    [ subjectCourse                  |-> code,
      creditHours                    |-> credit,
      meeting_meetingTypeDescription |-> type,
      meeting_meetingMonday          |-> "M" \in days,
      meeting_meetingTuesday         |-> "T" \in days,
      meeting_meetingWednesday       |-> "W" \in days,
      meeting_meetingThursday        |-> "R" \in days,
      meeting_meetingFriday          |-> "F" \in days,
      meeting_meetingBeginTime       |-> begin,
      meeting_meetingEndTime         |-> end,
      prerequisites                  |-> prereq ]

MWF == {"M", "W", "F"}
TR  == {"T", "R"}

Catalogue == <<
    \* 1: CS141, needs one of CS010C / CS011
    Section(CS141, Num(40), Lecture, MWF, T0900, T1000, << <<CS010C, CS011>> >>),
    \* 2: CS150
    Section(CS150, Num(40), Lecture, TR, T1000, T1100, <<>>),
    \* 3: CS161 at the hour of 1
    Section(CS161, Num(40), Lecture, MWF, T0900, T1000, <<>>),
    \* 4: a second lecture of CS141, code not normalised, starts when 1 and 3 end
    Section(<<" ","c","s","1","4","1">>, Num(50), LECTURE, {"M"}, T1000, T1100, <<>>),
    \* 5: a second lecture of CS161, decimal credit, overlaps 2 by half an hour
    Section(CS161, Num(45), Lecture, TR, T1030, T1130, <<>>),
    \* 6: the lab of CS150
    Section(CS150, Num(10), Laboratory, MWF, T0900, T1000, <<>>),
    \* 7: CS150 on Monday with no time and no creditHours key
    Section(CS150, Absent, Lecture, {"M"}, PyNone, PyNone, <<>>),
    \* 8: CS161 to be announced: no day, no time, creditHours filled with "None"
    Section(CS161, Str(<<"N","o","n","e">>), Lecture, {}, PyNone, PyNone, <<>>),
    \* 9: CS150 with creditHours null
    Section(CS150, PyNone, Lecture, TR, T1000, T1100, <<>>),
    \* 10: a meeting of CS161 without a meeting type, at the hour of 2
    Section(CS161, Num(40), PyNone, TR, T1000, T1100, <<>>)
>>

RECURSIVE Ascending(_)
Ascending(S) == IF S = {} THEN <<>>
                ELSE LET m == CHOOSE x \in S : \A y \in S : x <= y
                     IN  <<m>> \o Ascending(S \ {m})
Reverse(s) == [j \in 1..Len(s) |-> s[Len(s) + 1 - j]]

Picks == {S \in SUBSET (1..Len(Catalogue)) : Cardinality(S) <= MaxSections}
Orders == {Ascending(S) : S \in Picks} \cup {Reverse(Ascending(S)) : S \in Picks}
Pools == {[j \in 1..Len(o) |-> Catalogue[o[j]]] : o \in Orders}

Wishes == {
    (CS141 :> 8 @@ CS150 :> 6 @@ CS161 :> 5),
    (CS141 :> 5 @@ CS161 :> 8),
    (CS141 :> 5 @@ CS150 :> 5 @@ CS161 :> 5),
    (CS141 :> (-2) @@ CS150 :> 0 @@ CS161 :> (-2)) }

CompletedSets == { {}, {CS011}, {CS011, CS150} }

UnitBounds == { <<0, 21>>, <<0, 4>>, <<5, 12>> }

Configs ==
    { [w |-> w, c |-> c, load |-> l, lo |-> 0, hi |-> 21] :
        w \in Wishes, c \in CompletedSets, l \in 0..MaxLoad }
    \cup
    { [w |-> w, c |-> c, load |-> MaxLoad, lo |-> b[1], hi |-> b[2]] :
        w \in Wishes, c \in CompletedSets, b \in UnitBounds }

-----------------------------------------------------------------------------
(* build_schedule *)

Init ==
    /\ sections \in Pools
    /\ \E cfg \in Configs :
          /\ wish_scores = cfg.w
          /\ completed = cfg.c
          /\ max_load = cfg.load
          /\ min_units = cfg.lo
          /\ max_units = cfg.hi
    /\ pc = "filter"
    /\ k = 1
    /\ clean = <<>>
    /\ best_sched = <<>>
    /\ best_score = InitialBestScore
    /\ chosen = <<>>
    /\ stack = <<>>
    /\ exc = "none"
    /\ result = <<>>
    /\ calls = <<>>
    /\ args = <<>>
    /\ out = "pending"
    /\ other = <<>>

Top == stack[Len(stack)]
SetTop(f) == [stack EXCEPT ![Len(stack)] = f]
Pop(s) == SubSeq(s, 1, Len(s) - 1)

\* lines 87-94: a section that is no lecture, not wished for or completed is skipped
FilterSkip ==
    /\ pc = "filter" /\ k <= Len(sections)
    /\ ~IsLecture(sections[k]) \/ Unwanted(NormCode(sections[k]))
    /\ k' = k + 1
    /\ UNCHANGED <<inputs, outside, pc, clean, best_sched, best_score, chosen, stack, exc, result>>

\* lines 96-106: the section is normalised and appended to clean
FilterKeep ==
    /\ pc = "filter" /\ k <= Len(sections)
    /\ IsLecture(sections[k]) /\ ~Unwanted(NormCode(sections[k]))
    /\ IntOfCredit(sections[k].creditHours).err = "none"
    /\ clean' = Append(clean, Normalise(k))
    /\ k' = k + 1
    /\ UNCHANGED <<inputs, outside, pc, best_sched, best_score, chosen, stack, exc, result>>

\* line 100: int() raises on None (TypeError) or on a non-numeric string (ValueError)
FilterRaise ==
    /\ pc = "filter" /\ k <= Len(sections)
    /\ IsLecture(sections[k]) /\ ~Unwanted(NormCode(sections[k]))
    /\ IntOfCredit(sections[k].creditHours).err # "none"
    /\ pc' = "raised"
    /\ exc' = IntOfCredit(sections[k].creditHours).err
    /\ UNCHANGED <<inputs, outside, k, clean, best_sched, best_score, chosen, stack, result>>

\* a faulty build_schedule: best_score lives outside the call and is not reset
SortAndSearch_keepsBestScore ==
    /\ pc = "filter" /\ k > Len(sections)
    /\ clean' = SortDesc(clean)
    /\ best_sched' = <<>>
    /\ chosen' = <<>>
    /\ stack' = << [idx |-> 0, i |-> 0, units |-> 0, score |-> 0, at |-> "check"] >>
    /\ pc' = "dfs"
    /\ UNCHANGED <<inputs, outside, best_score, k, exc, result>>

\* lines 108-111 and 138: sort, initialise the best, call dfs(0, [], 0, 0)
SortAndSearch ==
    /\ pc = "filter" /\ k > Len(sections)
    /\ clean' = SortDesc(clean)
    /\ best_sched' = <<>>
    /\ best_score' = InitialBestScore
    /\ chosen' = <<>>
    /\ stack' = << [idx |-> 0, i |-> 0, units |-> 0, score |-> 0, at |-> "check"] >>
    /\ pc' = "dfs"
    /\ UNCHANGED <<inputs, outside, k, exc, result>>

\* a faulty dfs entry: max_load is consulted neither at line 115 nor at line 118
DfsEnter_noLoadLimit ==
    /\ pc = "dfs" /\ stack # <<>> /\ Top.at = "check"
    /\ IF min_units <= Top.units /\ Top.units <= max_units /\ Top.score > best_score
       THEN best_sched' = chosen /\ best_score' = Top.score
       ELSE UNCHANGED <<best_sched, best_score>>
    /\ IF Top.idx = Len(clean)
       THEN stack' = Pop(stack)
       ELSE stack' = SetTop([Top EXCEPT !.at = "loop", !.i = Top.idx])
    /\ UNCHANGED <<inputs, outside, pc, k, clean, chosen, exc, result>>

\* lines 115-119: record a better feasible selection, then return or enter the loop
DfsEnter ==
    /\ pc = "dfs" /\ stack # <<>> /\ Top.at = "check"
    /\ IF Recordable(chosen, Top.units) /\ Top.score > best_score
       THEN best_sched' = chosen /\ best_score' = Top.score
       ELSE UNCHANGED <<best_sched, best_score>>
    /\ IF StopBranching(Top.idx, chosen)
       THEN stack' = Pop(stack)
       ELSE stack' = SetTop([Top EXCEPT !.at = "loop", !.i = Top.idx])
    /\ UNCHANGED <<inputs, outside, pc, k, clean, chosen, exc, result>>

Cand == clean[Top.i + 1]

\* faulty exclusions: the prerequisites are not tested
Excluded_prereqNotTested(sel, units, cand) ==
    IF AlreadyChosen(sel, cand) THEN "T"
    ELSE IF units + cand.units > max_units THEN "T"
    ELSE AnyOverlap(cand, sel)

\* lines 125-132: the exclusions, in the order the code tests them
Excluded(sel, units, cand) ==
    IF AlreadyChosen(sel, cand) THEN "T"
    ELSE IF units + cand.units > max_units THEN "T"
    ELSE IF ~_prereq_met(cand.prereq, completed) THEN "T"
    ELSE AnyOverlap(cand, sel)

InLoop == pc = "dfs" /\ stack # <<>> /\ Top.at = "loop"

\* a faulty loop: `break` for `continue`
DfsSkip_breaks ==
    /\ InLoop /\ Top.i < Len(clean)
    /\ Excluded(chosen, Top.units, Cand) = "T"
    /\ stack' = SetTop([Top EXCEPT !.i = Len(clean)])
    /\ UNCHANGED <<inputs, outside, pc, k, clean, best_sched, best_score, chosen, exc, result>>

\* lines 124-132: continue
DfsSkip ==
    /\ InLoop /\ Top.i < Len(clean)
    /\ Excluded(chosen, Top.units, Cand) = "T"
    /\ stack' = SetTop([Top EXCEPT !.i = Top.i + 1])
    /\ UNCHANGED <<inputs, outside, pc, k, clean, best_sched, best_score, chosen, exc, result>>

\* line 131: _overlap compares a time with None
DfsRaise ==
    /\ InLoop /\ Top.i < Len(clean)
    /\ Excluded(chosen, Top.units, Cand) = "E"
    /\ pc' = "raised"
    /\ exc' = "TypeError"
    /\ UNCHANGED <<inputs, outside, k, clean, best_sched, best_score, chosen, stack, result>>

\* a faulty recursion: dfs(idx, ...) for dfs(i + 1, ...)
DfsTake_fromIdx ==
    /\ InLoop /\ Top.i < Len(clean)
    /\ Excluded(chosen, Top.units, Cand) = "F"
    /\ chosen' = Append(chosen, Cand)
    /\ stack' = Append(SetTop([Top EXCEPT !.at = "pop"]),
                       [idx   |-> Top.idx,
                        i     |-> Top.idx,
                        units |-> Top.units + Cand.units,
                        score |-> Top.score + Cand.score,
                        at    |-> "check"])
    /\ UNCHANGED <<inputs, outside, pc, k, clean, best_sched, best_score, exc, result>>

\* lines 134-135: chosen.append(cand); dfs(i + 1, chosen, units + ..., score + ...)
DfsTake ==
    /\ InLoop /\ Top.i < Len(clean)
    /\ Excluded(chosen, Top.units, Cand) = "F"
    /\ chosen' = Append(chosen, Cand)
    /\ stack' = Append(SetTop([Top EXCEPT !.at = "pop"]),
                       [idx   |-> Top.i + 1,
                        i     |-> Top.i + 1,
                        units |-> Top.units + Cand.units,
                        score |-> Top.score + Cand.score,
                        at    |-> "check"])
    /\ UNCHANGED <<inputs, outside, pc, k, clean, best_sched, best_score, exc, result>>

\* a faulty line 116: best_sched = chosen, the same list and not a copy of it
DfsBacktrack_aliasedBest ==
    /\ pc = "dfs" /\ stack # <<>> /\ Top.at = "pop"
    /\ chosen' = Pop(chosen)
    /\ best_sched' = IF best_sched = chosen THEN Pop(chosen) ELSE best_sched
    /\ stack' = SetTop([Top EXCEPT !.at = "loop", !.i = Top.i + 1])
    /\ UNCHANGED <<inputs, outside, pc, k, clean, best_score, exc, result>>

\* a faulty loop: after the pop the same candidate is tried again
DfsBacktrack_sameCursor ==
    /\ pc = "dfs" /\ stack # <<>> /\ Top.at = "pop"
    /\ chosen' = Pop(chosen)
    /\ stack' = SetTop([Top EXCEPT !.at = "loop"])
    /\ UNCHANGED <<inputs, outside, pc, k, clean, best_sched, best_score, exc, result>>

\* line 136: chosen.pop() once the recursive call has returned
DfsBacktrack ==
    /\ pc = "dfs" /\ stack # <<>> /\ Top.at = "pop"
    /\ chosen' = Pop(chosen)
    /\ stack' = SetTop([Top EXCEPT !.at = "loop", !.i = Top.i + 1])
    /\ UNCHANGED <<inputs, outside, pc, k, clean, best_sched, best_score, exc, result>>

\* line 121: the range is exhausted, dfs returns
DfsReturn ==
    /\ InLoop /\ Top.i = Len(clean)
    /\ stack' = Pop(stack)
    /\ UNCHANGED <<inputs, outside, pc, k, clean, best_sched, best_score, chosen, exc, result>>

\* line 139: return [s["raw"] for s in best_sched]
Finish ==
    /\ pc = "dfs" /\ stack = <<>>
    /\ result' = [j \in 1..Len(best_sched) |-> best_sched[j].raw]
    /\ pc' = "done"
    /\ UNCHANGED <<inputs, outside, k, clean, best_sched, best_score, chosen, stack, exc>>

Next ==
    \/ FilterSkip
    \/ FilterKeep
    \/ FilterRaise
    \/ SortAndSearch
    \/ DfsEnter
    \/ DfsSkip
    \/ DfsRaise
    \/ DfsTake
    \/ DfsBacktrack
    \/ DfsReturn
    \/ Finish

Spec == Init /\ [][Next]_vars

-----------------------------------------------------------------------------
(* The search on its own: calls with equal scores and the default unit      *)
(* bounds; then those of them in which CS011 is completed, followed to      *)
(* their end (a step that can be taken is taken).                            *)

EvenWishes == (CS141 :> 5 @@ CS150 :> 5 @@ CS161 :> 5)

InitSearch ==
    /\ Init
    /\ wish_scores = EvenWishes
    /\ min_units = 0
    /\ max_units = 21

SpecSearch == InitSearch /\ [][Next]_vars

InitToTheEnd == InitSearch /\ completed = {CS011}

SpecToTheEnd == InitToTheEnd /\ [][Next]_vars /\ WF_vars(Next)

-----------------------------------------------------------------------------
(* A caller that calls build_schedule a second time *)

\* the call has returned; the caller notes the arguments and the returned list
Noted == <<[sections |-> sections, wish_scores |-> wish_scores, result |-> result]>>

\* line 86 of the new call: clean = []. The other locals of the new frame are
\* unbound until the code assigns them; they hold whatever the last call left.
Enter ==
    /\ pc' = "filter"
    /\ k' = 1
    /\ clean' = <<>>
    /\ UNCHANGED <<best_sched, best_score, chosen, stack, exc, result, args, out, other>>

\* a second call with the very same arguments
CallAgain ==
    /\ pc = "done" /\ calls = <<>>
    /\ calls' = Noted
    /\ Enter
    /\ UNCHANGED inputs

\* a second call with the sections in another order, all else equal
Rotate(s) == IF s = <<>> THEN s ELSE Append(Tail(s), Head(s))
CallPermuted ==
    /\ pc = "done" /\ calls = <<>>
    /\ sections' \in {Reverse(sections), Rotate(sections)} \ {sections}
    /\ calls' = Noted
    /\ Enter
    /\ UNCHANGED <<wish_scores, completed, max_load, min_units, max_units>>

NextPermuted == Next \/ CallPermuted

SpecPermuted == Init /\ [][NextPermuted]_vars

NextTwice == Next \/ CallAgain

SpecTwice == Init /\ [][NextTwice]_vars

-----------------------------------------------------------------------------
(* chatbot.py: the schedule is built in two phases *)

\* the course plan file (lines 27-30)
plan_courses   == {CS141, CS150}
tech_electives == {CS161}
breadth_pool   == {CS150}

\* what rank_courses hands back: a score for some of the courses it was given
ScoreValues == {3, 9}
ScoreMaps(courses) == UNION {[S -> ScoreValues] : S \in SUBSET courses}

\* lines 32-50: the inputs are read, the core courses ranked, build_schedule
\* called with max_load = desired_load and the default unit bounds
InitChatbot ==
    /\ sections \in Pools
    /\ completed \in CompletedSets
    /\ max_load \in 0..MaxLoad
    /\ min_units = 0
    /\ max_units = 21
    /\ wish_scores \in ScoreMaps(plan_courses \ completed)
    /\ pc = "filter"
    /\ k = 1
    /\ clean = <<>>
    /\ best_sched = <<>>
    /\ best_score = InitialBestScore
    /\ chosen = <<>>
    /\ stack = <<>>
    /\ exc = "none"
    /\ result = <<>>
    /\ calls = <<>>
    /\ args = <<>>
    /\ out = "pending"
    /\ other = <<>>

\* line 56: {s["subjectCourse"] for s in schedule}
already_chosen == {sections[result[j]].subjectCourse : j \in 1..Len(result)}

\* line 57
extra_pool == ((tech_electives \cup breadth_pool) \ completed) \ already_chosen

\* lines 74-75: wish_scores.setdefault(course_id, score) for each ranked extra
Merged(scores, ranked_extra) ==
    [c \in DOMAIN scores \cup DOMAIN ranked_extra |->
        IF c \in DOMAIN scores THEN scores[c] ELSE ranked_extra[c]]

\* lines 53-77: phase 2
PhaseTwo ==
    /\ pc = "done" /\ calls = <<>>
    /\ Len(result) < max_load
    /\ extra_pool # {}
    /\ \E ranked_extra \in ScoreMaps(extra_pool) :
          wish_scores' = Merged(wish_scores, ranked_extra)
    /\ calls' = Noted
    /\ Enter
    /\ UNCHANGED <<sections, completed, max_load, min_units, max_units>>

NextChatbot == Next \/ PhaseTwo

SpecChatbot == InitChatbot /\ [][NextChatbot]_vars

-----------------------------------------------------------------------------
(* Two invocations that run in turns *)

\* the arguments and locals of the running invocation
Frame ==
    [ sections |-> sections, wish_scores |-> wish_scores, completed |-> completed,
      max_load |-> max_load, min_units |-> min_units, max_units |-> max_units,
      pc |-> pc, k |-> k, clean |-> clean, best_sched |-> best_sched,
      best_score |-> best_score, chosen |-> chosen, stack |-> stack,
      exc |-> exc, result |-> result ]

\* the arguments of a call, and the frame of a call that has not started
Arguments(pool, cfg) ==
    [ sections |-> pool, wish_scores |-> cfg.w, completed |-> cfg.c,
      max_load |-> cfg.load, min_units |-> cfg.lo, max_units |-> cfg.hi ]
NewFrame(a) ==
    [ sections |-> a.sections, wish_scores |-> a.wish_scores,
      completed |-> a.completed, max_load |-> a.max_load,
      min_units |-> a.min_units, max_units |-> a.max_units,
      pc |-> "filter", k |-> 1, clean |-> <<>>, best_sched |-> <<>>,
      best_score |-> InitialBestScore, chosen |-> <<>>, stack |-> <<>>,
      exc |-> "none", result |-> <<>> ]

PoolOf(o) == [j \in 1..Len(o) |-> Catalogue[o[j]]]

TurnInputs ==
    { Arguments(PoolOf(o), cfg) :
        o \in { <<2, 3, 4>>, <<4, 1, 6>>, <<7, 4>>, <<8, 5>> },
        cfg \in { c \in Configs : c.load = 2 /\ c.c = {CS011} /\ c.w[CS141] # 5 } }

\* a faulty dfs: best_sched and best_score are module globals (`global` for
\* `nonlocal`), so both invocations read and write the same pair
Switch_sharedBest ==
    /\ other # <<>>
    /\ other' = << [Frame EXCEPT !.best_sched = other[1].best_sched,
                                 !.best_score = other[1].best_score] >>
    /\ sections' = other[1].sections
    /\ wish_scores' = other[1].wish_scores
    /\ completed' = other[1].completed
    /\ max_load' = other[1].max_load
    /\ min_units' = other[1].min_units
    /\ max_units' = other[1].max_units
    /\ pc' = other[1].pc
    /\ k' = other[1].k
    /\ clean' = other[1].clean
    /\ chosen' = other[1].chosen
    /\ stack' = other[1].stack
    /\ exc' = other[1].exc
    /\ result' = other[1].result
    /\ UNCHANGED <<best_sched, best_score, calls, args, out>>

\* the running invocation stops between two steps and the other one goes on:
\* arguments, locals and the closure cells best_sched and best_score (lines
\* 110-114) belong to the invocation
Switch ==
    /\ other # <<>>
    /\ other' = <<Frame>>
    /\ sections' = other[1].sections
    /\ wish_scores' = other[1].wish_scores
    /\ completed' = other[1].completed
    /\ max_load' = other[1].max_load
    /\ min_units' = other[1].min_units
    /\ max_units' = other[1].max_units
    /\ pc' = other[1].pc
    /\ k' = other[1].k
    /\ clean' = other[1].clean
    /\ best_sched' = other[1].best_sched
    /\ best_score' = other[1].best_score
    /\ chosen' = other[1].chosen
    /\ stack' = other[1].stack
    /\ exc' = other[1].exc
    /\ result' = other[1].result
    /\ UNCHANGED <<calls, args, out>>

InitTurns ==
    /\ \E a, b \in TurnInputs :
          /\ a # b
          /\ sections = a.sections
          /\ wish_scores = a.wish_scores
          /\ completed = a.completed
          /\ max_load = a.max_load
          /\ min_units = a.min_units
          /\ max_units = a.max_units
          /\ other = <<NewFrame(b)>>
    /\ pc = "filter"
    /\ k = 1
    /\ clean = <<>>
    /\ best_sched = <<>>
    /\ best_score = InitialBestScore
    /\ chosen = <<>>
    /\ stack = <<>>
    /\ exc = "none"
    /\ result = <<>>
    /\ calls = <<>>
    /\ args = <<>>
    /\ out = "pending"

NextTurns == Next \/ Switch

SpecTurns == InitTurns /\ [][NextTurns]_vars

-----------------------------------------------------------------------------
(* The helpers called on their own *)

\* no call of build_schedule is under way
Idle ==
    /\ sections = <<>>
    /\ wish_scores = <<>>
    /\ completed = {}
    /\ max_load = 0
    /\ min_units = 0
    /\ max_units = 0
    /\ pc = "helper"
    /\ k = 1
    /\ clean = <<>>
    /\ best_sched = <<>>
    /\ best_score = InitialBestScore
    /\ chosen = <<>>
    /\ stack = <<>>
    /\ exc = "none"
    /\ result = <<>>
    /\ calls = <<>>
    /\ other = <<>>

\* the fields of a candidate that _overlap reads
MinuteValues == {NoneMin, 540, 600, 630, 660}
DayStrings == { <<>>, <<"M">>, <<"T">>, <<"M", "T">> }
OverlapCands == [days : DayStrings, start : MinuteValues, end : MinuteValues]

InitOverlap ==
    /\ Idle
    /\ args \in OverlapCands \X OverlapCands
    /\ out = "pending"

\* _overlap(a, b) and _overlap(b, a)
CallOverlap ==
    /\ pc = "helper"
    /\ out' = [ab |-> _overlap(args[1], args[2]), ba |-> _overlap(args[2], args[1])]
    /\ pc' = "returned"
    /\ UNCHANGED <<inputs, k, clean, best_sched, best_score, chosen, stack, exc,
                   result, calls, other, args>>

NextOverlap == CallOverlap

SpecOverlap == InitOverlap /\ [][NextOverlap]_vars

\* prerequisite matrices and completed sets
PrereqCodes == {CS010C, CS011, NaN}
SeqsUpTo(S, n) == UNION {[1..m -> S] : m \in 0..n}
OrGroups == SeqsUpTo(PrereqCodes, MaxGroupLen)
Matrices == SeqsUpTo(OrGroups, MaxGroups)
TakenSets == { {}, {CS011}, {NaN}, {CS011, NaN} }

InitPrereq ==
    /\ Idle
    /\ args \in Matrices \X TakenSets
    /\ out = "pending"

\* _prereq_met(prereq_matrix, completed)
CallPrereq ==
    /\ pc = "helper"
    /\ out' = _prereq_met(args[1], args[2])
    /\ pc' = "returned"
    /\ UNCHANGED <<inputs, k, clean, best_sched, best_score, chosen, stack, exc,
                   result, calls, other, args>>

NextPrereq == CallPrereq

SpecPrereq == InitPrereq /\ [][NextPrereq]_vars

\* courseRanking.prereqs_fullfilled, for one course found in the database:
\* prereqsMissed when the inner loop ends (a taken course or 'nan' breaks it)
RECURSIVE PrereqsMissed(_, _)
PrereqsMissed(prereqList, coursesTaken) ==
    IF prereqList = <<>> THEN 0
    ELSE IF Head(prereqList) \in coursesTaken THEN 0
    ELSE IF Head(prereqList) = NaN THEN 0
    ELSE 1 + PrereqsMissed(Tail(prereqList), coursesTaken)

\* validCourse: no group with prereqsMissed == len(prereqList)
prereqs_fullfilled(prerequisites, coursesTaken) ==
    \A g \in 1..Len(prerequisites) :
        PrereqsMissed(prerequisites[g], coursesTaken) # Len(prerequisites[g])

\* both evaluators on the same matrix and the same completed courses
CallEvaluators ==
    /\ pc = "helper"
    /\ out' = [met  |-> _prereq_met(args[1], args[2]),
               kept |-> prereqs_fullfilled(args[1], args[2])]
    /\ pc' = "returned"
    /\ UNCHANGED <<inputs, k, clean, best_sched, best_score, chosen, stack, exc,
                   result, calls, other, args>>

NextEvaluators == CallEvaluators

SpecEvaluators == InitPrereq /\ [][NextEvaluators]_vars

\* the values _parse_minutes is called with: None and short texts
TimeChars == {"0", "1", "2", "5", "9", "x"}
TimeTexts == UNION {[1..n -> TimeChars] : n \in 0..MaxTimeLen}
TimeValues == {PyNone} \cup {Str(s) : s \in TimeTexts}

InitMinutes ==
    /\ Idle
    /\ args \in TimeValues
    /\ out = "pending"

\* _parse_minutes(t)
CallMinutes ==
    /\ pc = "helper"
    /\ out' = [minutes |-> _parse_minutes(args)]
    /\ pc' = "returned"
    /\ UNCHANGED <<inputs, k, clean, best_sched, best_score, chosen, stack, exc,
                   result, calls, other, args>>

NextMinutes == CallMinutes

SpecMinutes == InitMinutes /\ [][NextMinutes]_vars

-----------------------------------------------------------------------------
(* What the claims speak of, stated on the inputs *)

Done == pc = "done"
RaisedInFilter == pc = "raised" /\ stack = <<>>
RaisedInSearch == pc = "raised" /\ stack # <<>>

Returned == Range(result)

\* the sections the filter retains: lectures with a score that are not completed
NoScoreOrCompleted(code) == code \notin DOMAIN wish_scores \/ code \in completed
EligibleRaw == {r \in 1..Len(sections) :
                  IsLecture(sections[r]) /\ ~NoScoreOrCompleted(NormCode(sections[r]))}

CreditUnusable(r) == IntOfCredit(sections[r].creditHours).err # "none"

CodeOf(r)   == NormCode(sections[r])
ScoreOf(r)  == wish_scores[CodeOf(r)]
UnitsOf(r)  == IF CreditUnusable(r) THEN DefaultUnits
               ELSE IntOfCredit(sections[r].creditHours).v
StartOf(r)  == _parse_minutes(sections[r].meeting_meetingBeginTime)
EndOf(r)    == _parse_minutes(sections[r].meeting_meetingEndTime)
DaysOf(r)   == Range(_days_str(sections[r]))
Unscheduled(r) == StartOf(r) = NoneMin \/ EndOf(r) = NoneMin \/ DaysOf(r) = {}

\* the minutes of a meeting, as the half-open interval [start, end)
MinutesOf(r) == IF StartOf(r) = NoneMin \/ EndOf(r) = NoneMin THEN {}
                ELSE StartOf(r)..(EndOf(r) - 1)

\* conflicts(a, b) of the design: a common day and a.start < b.end and b.start < a.end
Clash(a, b) ==
    /\ DaysOf(a) \cap DaysOf(b) # {}
    /\ ~Unscheduled(a) /\ ~Unscheduled(b)
    /\ StartOf(a) < EndOf(b)
    /\ StartOf(b) < EndOf(a)

\* every OR-group has a member in the completed set
PrereqSatisfied(r) ==
    \A g \in Range(sections[r].prerequisites) : Range(g) \cap completed # {}

RECURSIVE TotalScore(_)
TotalScore(S) == IF S = {} THEN 0
                 ELSE LET x == CHOOSE y \in S : TRUE
                      IN  ScoreOf(x) + TotalScore(S \ {x})

RECURSIVE TotalUnits(_)
TotalUnits(S) == IF S = {} THEN 0
                 ELSE LET x == CHOOSE y \in S : TRUE
                      IN  UnitsOf(x) + TotalUnits(S \ {x})

Feasible(S) ==
    /\ \A a, b \in S : a # b => CodeOf(a) # CodeOf(b) /\ ~Clash(a, b)
    /\ \A a \in S : PrereqSatisfied(a)
    /\ Cardinality(S) <= max_load
    /\ min_units <= TotalUnits(S)
    /\ TotalUnits(S) <= max_units

FeasibleSets == {S \in SUBSET EligibleRaw : Feasible(S)}

-----------------------------------------------------------------------------
(* Claims *)

\* C1: whenever build_schedule returns and some subset of the eligible
\* candidates is feasible, the total score of the returned selection is the
\* maximum total score over the feasible subsets.
C1_OptimalScore ==
    (Done /\ FeasibleSets # {}) =>
        /\ \A S \in FeasibleSets : TotalScore(S) <= TotalScore(Returned)
        /\ \E S \in FeasibleSets : TotalScore(S) = TotalScore(Returned)

\* C2: no two returned sections meet on a common weekday at a common minute
\* of their half-open intervals [start, end).
C2_NoTimeConflict ==
    Done => \A a, b \in Returned :
               a # b => ~(DaysOf(a) \cap DaysOf(b) # {}
                          /\ MinutesOf(a) \cap MinutesOf(b) # {})

\* C2 witness: two returned sections share a day and one ends when the other starts
C2_BackToBackSelected ==
    Done /\ \E a, b \in Returned :
               /\ DaysOf(a) \cap DaysOf(b) # {}
               /\ EndOf(a) # NoneMin
               /\ EndOf(a) = StartOf(b)

\* C3: no two returned sections have the same normalised course code.
C3_OneSectionPerCourse ==
    Done => /\ Cardinality(Returned) = Len(result)
            /\ \A a, b \in Returned : a # b => CodeOf(a) # CodeOf(b)

\* C3 witness: the pool holds two compatible lectures of one course, whose raw
\* codes differ in case or blanks, and one of them is returned
C3_TwoLecturesOneReturned ==
    Done /\ \E a \in Returned : \E b \in EligibleRaw :
               /\ a # b
               /\ CodeOf(a) = CodeOf(b)
               /\ sections[a].subjectCourse # sections[b].subjectCourse
               /\ ~Clash(a, b)
               /\ PrereqSatisfied(b)
               /\ Len(result) < max_load
               /\ TotalUnits(Returned) + UnitsOf(b) <= max_units

\* C4: a returned selection is empty or its units (the units attached to the
\* candidates, int(creditHours)) sum to a value in [min_units, max_units]; no
\* returned section has more units than max_units, and a pool whose only
\* candidate has more units than max_units yields the empty list.
C4_UnitsInRange ==
    Done => /\ result = <<>> \/ (min_units <= TotalUnits(Returned)
                                 /\ TotalUnits(Returned) <= max_units)
            /\ \A a \in Returned : UnitsOf(a) <= max_units
            /\ (Cardinality(EligibleRaw) = 1
                /\ (\A a \in EligibleRaw : UnitsOf(a) > max_units)) => result = <<>>

\* C4 witness: the only eligible candidate has 5 units, max_units is 4, result empty
C4_TooManyUnitsAlone ==
    /\ Done
    /\ Cardinality(EligibleRaw) = 1
    /\ \A a \in EligibleRaw : UnitsOf(a) > max_units /\ PrereqSatisfied(a)
    /\ max_load > 0
    /\ result = <<>>

\* C5: every OR-group of the prerequisite matrix of every returned section has
\* a member in the completed set of the call.
C5_PrereqsSatisfied ==
    Done => \A a \in Returned : PrereqSatisfied(a)

\* C5 witness: a section with an OR-group is returned, a member of the group
\* being completed
C5_GatedCourseSelected ==
    Done /\ \E a \in Returned : sections[a].prerequisites # <<>>

\* C6: for max_load >= 0 the returned list has at most max_load sections.
C6_AtMostMaxLoad ==
    (Done /\ max_load >= 0) => Len(result) <= max_load

\* C6 witness: more candidates would fit than max_load admits
C6_LoadBinds ==
    /\ Done
    /\ max_load > 0
    /\ Len(result) = max_load
    /\ \E b \in EligibleRaw \ Returned :
          /\ \A a \in Returned : CodeOf(a) # CodeOf(b) /\ ~Clash(a, b)
          /\ PrereqSatisfied(b)
          /\ TotalUnits(Returned) + UnitsOf(b) <= max_units

\* C7: a candidate without a start or end time, or without a day, conflicts
\* with no candidate: _overlap is false for it on either side, and the search
\* does not fail.
C7_UnscheduledNeverConflicts ==
    /\ \A a, b \in Range(clean) :
          (a.start = NoneMin \/ a.end = NoneMin \/ a.days = <<>>) =>
              _overlap(a, b) = "F" /\ _overlap(b, a) = "F"
    /\ ~RaisedInSearch

\* C8: on infeasible input (no eligible candidate, or no feasible subset)
\* build_schedule does not raise and returns the empty list.
Infeasible == EligibleRaw = {} \/ FeasibleSets = {}
C8_InfeasibleReturnsEmpty ==
    /\ pc = "raised" => ~Infeasible
    /\ (Done /\ result # <<>>) => ~Infeasible

\* C9: an eligible section whose creditHours is absent, null or not a number
\* is kept as a candidate with 4 units, and build_schedule does not fail on it.
C9_CreditFallback ==
    /\ \A r \in EligibleRaw :
          (r < k /\ sections[r].creditHours.kind # "num"
                 /\ ~IsDigitStr(Strip(sections[r].creditHours.s))) =>
              \E j \in 1..Len(clean) : clean[j].raw = r /\ clean[j].units = DefaultUnits
    /\ ~RaisedInFilter

\* C10: no returned section has a course code without a score or in the
\* completed set, no such section is ever a candidate, and none makes the
\* call fail. (A code added to completed is therefore in no result.)
C10_UnwantedNeverReturned ==
    /\ Done => \A a \in Returned : ~NoScoreOrCompleted(CodeOf(a))
    /\ \A j \in 1..Len(clean) : ~NoScoreOrCompleted(clean[j].code)
    /\ RaisedInFilter => ~NoScoreOrCompleted(CodeOf(k))

\* C10 witness: a lecture of a completed course with unusable creditHours is
\* in the pool, and a schedule is returned
C10_CompletedCourseSkipped ==
    /\ Done
    /\ result # <<>>
    /\ \E r \in 1..Len(sections) :
          /\ IsLecture(sections[r])
          /\ CodeOf(r) \in completed
          /\ CreditUnusable(r)

\* C11: every returned section, and every candidate of the search, has the
\* meeting type 'lecture' in some letter case; a meeting of another type or
\* without a type is never a candidate, so it cannot exclude a lecture.
TypeIsLecture(r) ==
    /\ sections[r].meeting_meetingTypeDescription.kind = "str"
    /\ Lower(sections[r].meeting_meetingTypeDescription.s)
          = <<"l","e","c","t","u","r","e">>
C11_OnlyLectures ==
    /\ \A j \in 1..Len(clean) : TypeIsLecture(clean[j].raw)
    /\ Done => \A a \in Returned : TypeIsLecture(a)

\* C11 witness: a lecture is returned although the pool holds a meeting of
\* another type, or of no type, that meets at a common hour or is of its course
C11_LectureNotBlocked ==
    /\ Done
    /\ \E a \in Returned : \E b \in 1..Len(sections) :
          /\ ~TypeIsLecture(b)
          /\ (Clash(a, b) \/ CodeOf(a) = CodeOf(b))

\* C12: a second call with the same arguments returns the same list, the
\* same records in the same order.
C12_SameInputsSameOutput ==
    (Done /\ calls # <<>>) => result = calls[1].result

\* C12 witness: the second call has returned a list of two or more sections
C12_SecondCallReturned ==
    Done /\ calls # <<>> /\ Len(result) >= 2

\* C14: the returned list holds records of the input list, in increasing
\* position of the score-sorted candidate sequence, so that the scores do not
\* increase along the list.
PosInClean(r) == CHOOSE p \in 1..Len(clean) : clean[p].raw = r
C14_RawRecordsInSearchOrder ==
    Done => /\ \A j \in 1..Len(result) :
                 /\ result[j] \in 1..Len(sections)
                 /\ \E p \in 1..Len(clean) : clean[p].raw = result[j]
            /\ \A i, j \in 1..Len(result) :
                 i < j => /\ PosInClean(result[i]) < PosInClean(result[j])
                          /\ ScoreOf(result[i]) >= ScoreOf(result[j])

\* C14 witness: the returned sections stand in the input list in the opposite
\* order and have different scores
C14_ReorderedByScore ==
    Done /\ \E i, j \in 1..Len(result) :
               /\ i < j
               /\ result[i] > result[j]
               /\ ScoreOf(result[i]) > ScoreOf(result[j])

\* The depth-first preorder over the score-sorted candidates, stated on the
\* inputs: a candidate stands before another when its score is higher or, the
\* scores being equal, when it comes first in the input list (the sort is
\* stable); a selection is reached before another when it is a prefix of it
\* or holds the earlier candidate at the first place where they differ.
Before(a, b) == ScoreOf(a) > ScoreOf(b) \/ (ScoreOf(a) = ScoreOf(b) /\ a < b)
RECURSIVE InSearchOrder(_)
InSearchOrder(S) ==
    IF S = {} THEN <<>>
    ELSE LET f == CHOOSE a \in S : \A b \in S \ {a} : Before(a, b)
         IN  <<f>> \o InSearchOrder(S \ {f})
RECURSIVE ReachedBefore(_, _)
ReachedBefore(x, y) ==
    IF x = <<>> THEN y # <<>>
    ELSE IF y = <<>> THEN FALSE
    ELSE IF Head(x) = Head(y) THEN ReachedBefore(Tail(x), Tail(y))
    ELSE Before(Head(x), Head(y))

\* the selection of maximum score in F that the search reaches first
FirstBest(F) ==
    LET top == {S \in F : \A T \in F : TotalScore(T) <= TotalScore(S)}
    IN  InSearchOrder(CHOOSE S \in top :
            \A T \in top \ {S} : ReachedBefore(InSearchOrder(S), InSearchOrder(T)))

\* what a call returns when nothing raises: the first best of the feasible
\* selections that beat the initial best_score, or the empty list
WhenRunAlone ==
    LET F == {S \in FeasibleSets : TotalScore(S) > InitialBestScore}
    IN  IF F = {} THEN <<>> ELSE FirstBest(F)

\* C18: of the feasible selections of maximum total score, the call returns
\* the one that the depth-first preorder over the score-sorted candidates
\* reaches first.
C18_FirstOfTheBest ==
    (Done /\ FeasibleSets # {}) => result = FirstBest(FeasibleSets)

\* C13: two invocations with different arguments run in turns, step by step
\* in any order; whenever one of them has returned, its list is the list the
\* call returns when it runs alone.
C13_TurnsChangeNothing ==
    (Done /\ other # <<>>) => result = WhenRunAlone

\* C13 witness: an invocation has returned a schedule while the other one is
\* stopped in the middle of its search, a best selection already recorded
C13_ReturnedWhileOtherSearches ==
    /\ Done /\ other # <<>>
    /\ result # <<>>
    /\ other[1].pc = "dfs"
    /\ other[1].chosen # <<>>
    /\ other[1].best_sched # <<>>

\* C15: for candidates with start and end times, _overlap(a, b) is true
\* exactly when the day sets meet and a.start < b.end and b.start < a.end,
\* and _overlap(b, a) gives the same answer.
HasTimes(c) == c.start # NoneMin /\ c.end # NoneMin
C15_OverlapIsTheIntervalTest ==
    (pc = "returned" /\ HasTimes(args[1]) /\ HasTimes(args[2])) =>
        /\ out.ab \in {"T", "F"}
        /\ out.ab = "T" <=> /\ Range(args[1].days) \cap Range(args[2].days) # {}
                            /\ args[1].start < args[2].end
                            /\ args[2].start < args[1].end
        /\ out.ba = out.ab

\* C15 witness: b starts inside a and ends after it, on a common day
C15_PartialOverlap ==
    /\ pc = "returned"
    /\ out.ab = "T"
    /\ args[1].days # args[2].days
    /\ args[1].start < args[2].start
    /\ args[2].start < args[1].end
    /\ args[1].end < args[2].end

\* C16: _prereq_met is true exactly when every OR-group holds a code, other
\* than 'nan', of the completed set: true for the empty matrix, false when a
\* group is empty or holds only 'nan', also with 'nan' in the completed set.
C16_PrereqMetIsEveryGroup ==
    pc = "returned" =>
        /\ out = (\A g \in Range(args[1]) : (Range(g) \cap args[2]) \ {NaN} # {})
        /\ args[1] = <<>> => out
        /\ (\E g \in Range(args[1]) : Range(g) \subseteq {NaN}) => ~out

\* C16 witness: a group holds only 'nan', 'nan' is in the completed set, and
\* the answer is false
C16_NanSatisfiesNothing ==
    /\ pc = "returned"
    /\ NaN \in args[2]
    /\ \E g \in Range(args[1]) : g # <<>> /\ Range(g) = {NaN}
    /\ \A g \in Range(args[1]) : Range(g) \cap args[2] # {}
    /\ ~out

\* C19: a call on the same sections in another order, all else equal,
\* returns a selection of the same total score.
RECURSIVE ScoreOfList(_, _, _)
ScoreOfList(secs, w, res) ==
    IF res = <<>> THEN 0
    ELSE w[Upper(Strip(secs[Head(res)].subjectCourse))] + ScoreOfList(secs, w, Tail(res))
C19_OrderDoesNotChangeScore ==
    (Done /\ calls # <<>>) =>
        ScoreOfList(sections, wish_scores, result)
            = ScoreOfList(calls[1].sections, calls[1].wish_scores, calls[1].result)

\* C19 witness: the two orders give different selections (a tie broken the
\* other way)
C19_OtherSelectionSameScore ==
    /\ Done /\ calls # <<>>
    /\ result # <<>>
    /\ {sections[r] : r \in Returned}
          # {calls[1].sections[r] : r \in Range(calls[1].result)}

\* C17: whenever a feasible selection exists, also with zero or negative
\* scores and with min_units > 0, the result is a feasible selection of
\* maximum score; the search does not fall back on the empty list.
C17_FeasibleBestReturned ==
    (Done /\ FeasibleSets # {}) =>
        /\ Returned \in FeasibleSets
        /\ \A S \in FeasibleSets : TotalScore(S) <= TotalScore(Returned)

\* the credit value of a record as given, in tenths of a unit
CreditTenths(r) == sections[r].creditHours.n

RECURSIVE TotalCreditTenths(_)
TotalCreditTenths(S) == IF S = {} THEN 0
                        ELSE LET x == CHOOSE y \in S : TRUE
                             IN  CreditTenths(x) + TotalCreditTenths(S \ {x})

\* C20: the creditHours of the returned records, taken as given (decimal
\* values included), sum to a value within [min_units, max_units] unless the
\* selection is empty.
C20_GivenCreditInRange ==
    (/\ Done /\ result # <<>>
     /\ \A r \in Returned : sections[r].creditHours.kind = "num") =>
        /\ 10 * min_units <= TotalCreditTenths(Returned)
        /\ TotalCreditTenths(Returned) <= 10 * max_units

\* the search is inside dfs
Searching == pc = "dfs" /\ stack # <<>>

\* the positions in the candidate sequence of the members of the partial selection
ChosenAt == [j \in 1..Len(chosen) |-> CHOOSE p \in 1..Len(clean) : clean[p] = chosen[j]]

\* dfs has just been entered with the candidates at the positions S selected
AtNode(S) == Searching /\ Top.at = "check" /\ Range(ChosenAt) = S

\* the positions along a branch increase strictly and lie before the cursor
IncreasingAlongBranch ==
    Searching =>
        /\ \A j \in 1..Len(chosen) : \E p \in 1..Len(clean) : clean[p] = chosen[j]
        /\ \A i, j \in 1..Len(chosen) : i < j => ChosenAt[i] < ChosenAt[j]
        /\ Top.at # "pop" => \A j \in 1..Len(chosen) : ChosenAt[j] <= Top.idx
        /\ Top.at = "loop" => Top.i >= Top.idx

\* C21: along every branch of the search the candidate positions increase
\* strictly, and once dfs has been entered with a set of candidates and has
\* moved on, it is never entered with that set again.
C21_EachSubsetOnce ==
    /\ []IncreasingAlongBranch
    /\ \A S \in SUBSET (1..MaxSections) :
          [](AtNode(S) => [](~AtNode(S) => []~AtNode(S)))

\* C21 witness: dfs is entered with the first and the third candidate, the
\* second having been passed over
C21_SecondCandidatePassed ==
    Searching /\ Top.at = "check" /\ Len(chosen) = 2 /\ ChosenAt = <<1, 3>>

\* the call is over: it has returned or an exception has left it
Ended == pc \in {"done", "raised"}

Min(a, b) == IF a <= b THEN a ELSE b

\* the recursive calls below dfs(0, [], 0, 0)
Depth == Len(stack) - 1

\* C23: every call ends; a dfs entered with the cursor at the end of the
\* candidate sequence or with max_load members selected returns without
\* entering its loop; the recursion depth never exceeds
\* min(max_load, number of candidates).
C23_SearchTerminates ==
    /\ <>Ended
    /\ [](Searching => /\ Depth <= Min(max_load, Len(clean))
                       /\ Len(chosen) <= Min(max_load, Len(clean)))
    /\ [][(Searching /\ Top.at = "check"
             /\ (Top.idx = Len(clean) \/ Len(chosen) = max_load))
          => stack' = Pop(stack)]_vars

\* C23 witness: the call has returned a selection of max_load sections out of
\* more candidates
C23_LoadEndedTheBranch ==
    Done /\ Len(result) = max_load /\ max_load >= 1 /\ Len(clean) > max_load

\* the partial selection is the candidates the suspended calls have added:
\* one per frame that waits at line 135/136, in the order of the frames
RECURSIVE SumUnits(_)
SumUnits(sel) == IF sel = <<>> THEN 0 ELSE Head(sel).units + SumUnits(Tail(sel))
RECURSIVE SumScore(_)
SumScore(sel) == IF sel = <<>> THEN 0 ELSE Head(sel).score + SumScore(Tail(sel))
ChosenIsThePath ==
    Searching =>
        /\ \A d \in 1..(Len(stack) - 1) : stack[d].at = "pop"
        /\ Len(chosen) = IF Top.at = "pop" THEN Len(stack) ELSE Len(stack) - 1
        /\ \A d \in 1..Len(chosen) : chosen[d] = clean[stack[d].i + 1]
        /\ Top.at # "pop" => /\ SumUnits(chosen) = Top.units
                             /\ SumScore(chosen) = Top.score

\* C22: when a recursive call has returned and its candidate is removed, the
\* partial selection is the one the calling frame was entered with (its
\* members, units and score); the recorded best changes only where it is
\* recorded (line 116), never by an append or a pop.
C22_BacktrackRestores ==
    /\ []ChosenIsThePath
    /\ [][(Searching /\ Top.at = "pop") =>
             /\ chosen' = SubSeq(chosen, 1, Len(stack) - 1)
             /\ SumUnits(chosen') = Top.units
             /\ SumScore(chosen') = Top.score]_vars
    /\ [][(pc = "dfs" /\ best_sched' # best_sched) =>
             /\ Searching /\ Top.at = "check"
             /\ chosen' = chosen
             /\ best_sched' = chosen]_vars

\* C22 witness: after a pop the loop goes on with a shorter partial
\* selection while the recorded best still holds the longer one
C22_BestOutlivesThePop ==
    /\ Searching /\ Top.at = "loop" /\ Top.i > Top.idx
    /\ Len(best_sched) > Len(chosen)
    /\ Len(chosen) >= 1

\* the input records the recorded best holds
BestRaw == {best_sched[j].raw : j \in 1..Len(best_sched)}

\* a best has been recorded in this call
BestRecorded == best_score > InitialBestScore

\* C26: in every state of the search a recorded best selection is feasible
\* (one section per course code, no two sections in conflict, prerequisites
\* met, at most max_load sections, units within [min_units, max_units]) and
\* its scores sum to the recorded best score; within a call the recorded
\* best score never decreases.
C26_BestIsFeasible ==
    /\ []((pc = "dfs" /\ BestRecorded) =>
             /\ Cardinality(BestRaw) = Len(best_sched)
             /\ BestRaw \subseteq EligibleRaw
             /\ Feasible(BestRaw)
             /\ TotalScore(BestRaw) = best_score)
    /\ [][(pc = "dfs" /\ pc' = "dfs") => best_score' >= best_score]_vars

\* C26 witness: a best of two sections is recorded and the search has gone
\* on to another branch
C26_BestKeptWhileSearching ==
    /\ Searching /\ BestRecorded
    /\ Len(best_sched) >= 2
    /\ chosen # <<>>
    /\ Range(chosen) \cap Range(best_sched) = {}

\* a time text of the form HHMM: four digits, hour 00..23, minutes 00..59
WellFormedTime(v) ==
    /\ v.kind = "str"
    /\ Len(v.s) = 4
    /\ \A j \in 1..4 : IsDigitCh(v.s[j])
    /\ DigitsToInt(SubSeq(v.s, 1, 2)) <= 23
    /\ DigitsToInt(SubSeq(v.s, 3, 4)) <= 59

\* C25: _parse_minutes returns hours * 60 + minutes for a text HHMM and None
\* for every other value: None itself, the empty text, a text shorter or
\* longer than four characters, a text with a non-digit, an hour above 23 or
\* minutes above 59.
C25_ParseMinutes ==
    pc = "returned" =>
        out.minutes = IF WellFormedTime(args)
                      THEN DigitsToInt(SubSeq(args.s, 1, 2)) * 60
                             + DigitsToInt(SubSeq(args.s, 3, 4))
                      ELSE NoneMin

\* C27: for every prerequisite matrix and completed set,
\* courseRanking.prereqs_fullfilled keeps the course exactly when
\* scheduler._prereq_met is true of its matrix.
C27_EvaluatorsAgree ==
    pc = "returned" => out.kept = out.met

\* the course codes of the sections a call returned
CoursesOf(secs, res) == {Upper(Strip(secs[res[j]].subjectCourse)) : j \in 1..Len(res)}

\* C24: build_schedule is called a second time only when the first call
\* returned fewer than desired_load sections and some elective or breadth
\* course is neither completed nor selected; the second call's scores agree
\* with the first call's on every course that had one; every course the first
\* call selected is in the schedule the second call returns.
C24_PhaseTwoOnlyFills ==
    /\ [][calls' # calls =>
            /\ Len(result) < max_load
            /\ ((tech_electives \cup breadth_pool) \ completed)
                  \ {sections[r].subjectCourse : r \in Returned} # {}]_vars
    /\ []((Done /\ calls # <<>>) =>
            /\ \A c \in DOMAIN calls[1].wish_scores :
                  /\ c \in DOMAIN wish_scores
                  /\ wish_scores[c] = calls[1].wish_scores[c]
            /\ CoursesOf(calls[1].sections, calls[1].result)
                  \subseteq CoursesOf(sections, result))

====
